---- MODULE Spec2Model ----
(***************************************************************************)
(* Model of the OSC -> Bluetooth LE bridge of yongnuo-osc-server           *)
(* (src/yongnuo-osc-server/src/server.rs): the OSC dispatch functions, the *)
(* single-slot mailbox (Mutex + Condvar) shared by the two threads of      *)
(* serve(), the transmit thread (setup, then consume -> write) and the     *)
(* ingestion thread (recv -> decode -> dispatch -> publish).               *)
(***************************************************************************)
EXTENDS Integers, Sequences, FiniteSets, TLC

\* ------------------------------------------------------------------ bounds
\* Datagrams the socket delivers in one run of the bridge.
MaxDatagrams == 3
\* Members of a bundle.
MaxBundleLen == 2

\* ------------------------------------------------------- program constants
\* Scale of /red, /green, /blue and of /warm, /cool.
RGBScale == 255
WhiteScale == 99
\* Largest value of a u8.
U8Max == 255
\* An f32 argument k/FloatDen is carried as its numerator k; with a power of
\* two as denominator the products k*255 and k*99 are exact in f32.
FloatDen == 1024

\* ------------------------------------------------------------- value types
\* Option<T>: None is <<>>, Some(v) is <<v>>.
NoneOpt == <<>>
Some(v) == <<v>>
UnwrapOr(opt, d) == IF opt = NoneOpt THEN d ELSE opt[1]

\* #[derive(Default, Clone)] struct LightState { rgb, white }
LightState(r, g, b, w, c) ==
    [rgb |-> [red |-> r, green |-> g, blue |-> b], white |-> [warm |-> w, cool |-> c]]
LightStateDefault == LightState(0, 0, 0, 0, 0)

\* enum StateModification { RGB, White, None }
StateModification == {"RGB", "White", "None"}

\* OscType values: a float (numerator over FloatDen), an int, a string.
OscFloatArg(k) == [type |-> "Float", v |-> k]
OscInt(n) == [type |-> "Int", v |-> n]

\* OscPacket::Message(OscMessage { addr, args }) and
\* OscPacket::Bundle(OscBundle { content }); Broken stands for the bytes of a
\* datagram that rosc's decoder rejects.
Message(addr, args) == [kind |-> "Message", addr |-> addr, args |-> args, content |-> <<>>]
Bundle(content) == [kind |-> "Bundle", addr |-> "", args |-> <<>>, content |-> content]
Broken == [kind |-> "Broken", addr |-> "", args |-> <<>>, content |-> <<>>]

\* ------------------------------------------------------------ OSC dispatch
\* OscType::float(): Some(f) for a Float, None for every other type.
OscFloat(arg) == IF arg.type = "Float" THEN Some(arg.v) ELSE NoneOpt

\* num_traits ToPrimitive::to_u8 of the f32 num/FloatDen: truncation toward
\* zero when the value lies in the open interval (-1, 256), None otherwise.
ToU8(num) ==
    IF num > -FloatDen /\ num < (U8Max + 1) * FloatDen
        THEN Some(IF num < 0 THEN 0 ELSE num \div FloatDen)
        ELSE NoneOpt

\* (value.unwrap().float().unwrap_or(0.0) * scale).to_u8().unwrap_or(0),
\* for a present first argument.
BasicValue(arg, scale) == UnwrapOr(ToU8(UnwrapOr(OscFloat(arg), 0) * scale), 0)

SupportedAddrs == {"/red", "/green", "/blue", "/warm", "/cool"}

\* handle_message with the address matched without regard to case.
handle_message_nocase(message, state) ==
    LET addr == IF message.addr = "/RED" THEN "/red" ELSE message.addr
        value == IF Len(message.args) = 0 THEN NoneOpt ELSE Some(message.args[1])
        Panic == [state |-> state, mod |-> "None", panic |-> TRUE]
        Ret(s, m) == [state |-> s, mod |-> m, panic |-> FALSE]
    IN  IF addr \notin SupportedAddrs THEN Ret(state, "None")
        ELSE IF value = NoneOpt THEN Panic
        ELSE CASE addr = "/red" ->
                    Ret([state EXCEPT !.rgb.red = BasicValue(value[1], RGBScale)], "RGB")
               [] addr = "/green" ->
                    Ret([state EXCEPT !.rgb.green = BasicValue(value[1], RGBScale)], "RGB")
               [] addr = "/blue" ->
                    Ret([state EXCEPT !.rgb.blue = BasicValue(value[1], RGBScale)], "RGB")
               [] addr = "/warm" ->
                    Ret([state EXCEPT !.white.warm = BasicValue(value[1], WhiteScale)], "White")
               [] addr = "/cool" ->
                    Ret([state EXCEPT !.white.cool = BasicValue(value[1], WhiteScale)], "White")

\* handle_message: the outcome is the state after the call, the tag returned
\* and whether the call panicked (value.unwrap() on an empty argument list).
handle_message(message, state) ==
    LET value == IF Len(message.args) = 0 THEN NoneOpt ELSE Some(message.args[1])
        Panic == [state |-> state, mod |-> "None", panic |-> TRUE]
        Ret(s, m) == [state |-> s, mod |-> m, panic |-> FALSE]
    IN  CASE message.addr = "/red" ->
                IF value = NoneOpt THEN Panic
                ELSE Ret([state EXCEPT !.rgb.red = BasicValue(value[1], RGBScale)], "RGB")
          [] message.addr = "/green" ->
                IF value = NoneOpt THEN Panic
                ELSE Ret([state EXCEPT !.rgb.green = BasicValue(value[1], RGBScale)], "RGB")
          [] message.addr = "/blue" ->
                IF value = NoneOpt THEN Panic
                ELSE Ret([state EXCEPT !.rgb.blue = BasicValue(value[1], RGBScale)], "RGB")
          [] message.addr = "/warm" ->
                IF value = NoneOpt THEN Panic
                ELSE Ret([state EXCEPT !.white.warm = BasicValue(value[1], WhiteScale)], "White")
          [] message.addr = "/cool" ->
                IF value = NoneOpt THEN Panic
                ELSE Ret([state EXCEPT !.white.cool = BasicValue(value[1], WhiteScale)], "White")
          [] OTHER -> Ret(state, "None")

RECURSIVE handle_packet(_, _)
RECURSIVE BundleFold(_, _, _)

\* The lazy map(|p| handle_packet(p, state)) driven by last(): the members
\* are dispatched in order against the same state, each result replacing
\* the one before it; a panic unwinds out of the whole call.
BundleFold(content, i, acc) ==
    IF i > Len(content) \/ acc.panic THEN acc
    ELSE BundleFold(content, i + 1, handle_packet(content[i], acc.state))

\* handle_bundle: ....last().unwrap_or(StateModification::None)
handle_bundle(bundle, state) ==
    BundleFold(bundle.content, 1, [state |-> state, mod |-> "None", panic |-> FALSE])

handle_packet(packet, state) ==
    IF packet.kind = "Message" THEN handle_message(packet, state)
    ELSE handle_bundle(packet, state)

\* --------------------------------------------------------- command frames
\* send_rgb_state: &[0xae, 0xa1, red, green, blue, 0x56]
RgbFrame(state) == <<174, 161, state.rgb.red, state.rgb.green, state.rgb.blue, 86>>
\* send_white_state: &[0xae, 0xaa, 1, cool, warm, 0x56]
WhiteFrame(state) == <<174, 170, 1, state.white.cool, state.white.warm, 86>>
\* serve: the initialize message &[0xae, 0x33, 0x00, 0x00, 0x00, 0x56]
HandshakeFrame == <<174, 51, 0, 0, 0, 86>>
\* The tag whose frame carries the command byte of frame: 0xa1 is the RGB
\* command, 0xaa the white one.
FrameTag(frame) ==
    IF frame = <<>> THEN "None"
    ELSE IF frame[2] = 161 THEN "RGB"
    ELSE IF frame[2] = 170 THEN "White"
    ELSE "None"

\* ------------------------------------------------------------------ inputs
\* Numerators of the float arguments: -0.5, -1/1024, 0.0, 0.5, 1.0, 1.0039, 2.0.
FloatNums == {-512, -1, 0, 512, 1024, 1028, 2048}
ArgLists ==
    {<<>>, <<OscInt(1)>>, <<OscInt(1), OscFloatArg(1024)>>} \cup {<<OscFloatArg(k)>> : k \in FloatNums}
Addrs == SupportedAddrs \cup {"/RED", "/foo"}
Messages == {Message(a, args) : a \in Addrs, args \in ArgLists}

SeqsUpTo(S, n) == UNION {[1..k -> S] : k \in 0..n}

\* Members of the bundles dispatched by DispatchSpec: a few messages and
\* the bundles nested in them.
MemberMessages ==
    {Message(a, args) : a \in {"/red", "/warm", "/foo"},
                        args \in {<<>>, <<OscFloatArg(512)>>, <<OscFloatArg(1024)>>}}
InnerBundles == {Bundle(c) : c \in SeqsUpTo({Message("/blue", <<OscFloatArg(1024)>>), Message("/foo", <<>>)}, 1)}
Bundles == {Bundle(c) : c \in SeqsUpTo(MemberMessages \cup InnerBundles, MaxBundleLen)}
Packets == Messages \cup Bundles

\* LightStates DispatchSpec starts a dispatch from.
StartStates == {LightStateDefault, LightState(10, 20, 30, 40, 50)}

\* Datagrams the socket of the bridge delivers.
Datagrams ==
    { Message("/red", <<OscFloatArg(1024)>>),
      Message("/warm", <<OscFloatArg(512)>>),
      Message("/warm", <<OscInt(1)>>),
      Message("/foo", <<OscFloatArg(1024)>>),
      Message("/blue", <<>>),
      Bundle(<<Message("/green", <<OscFloatArg(1024)>>), Message("/foo", <<>>)>>),
      Broken }

\* BDAddr values: the peripherals a scan can report, as a Vec in scan order.
BDAddrs == {"AA", "BB"}
\* The address serve() is given as mac.
TargetAddrs == {"AA"}
ScanResults == SeqsUpTo(BDAddrs, 2)

\* ------------------------------------------------------------------- state
VARIABLES
    alive,              \* the process has not exited
    target_address,     \* serve: BDAddr::from_str(mac)
    txpc,               \* transmit thread: the statement it is at
    light,              \* transmit thread: address of the peripheral found, as Option
    msg,                \* transmit thread: the pair copied out of the slot
    rxpc,               \* ingestion thread: the statement it is at
    buf,                \* ingestion thread: the datagram read
    light_state,        \* ingestion thread: its private LightState
    this_modification,  \* ingestion thread: the tag handle_packet returned
    slot,               \* Mutex<(LightState, StateModification)>
    lock,               \* holder of the mutex: "free", "tx" or "rx"
    received,           \* datagrams read so far
    \* history
    prev_state,         \* light_state before the last dispatch
    nPublish,           \* publishes so far
    unread,             \* pairs published since the last return of consume
    drained,            \* the value of unread at the last return of consume
    consumed,           \* consume has returned at least once
    nNonNone,           \* returns of consume with a tag other than None
    lastNonNone,        \* snapshot of the last such return
    wcount,             \* command writes since the last return of consume
    lastFrame,          \* the last frame written to the characteristic
    lastWriteOk,        \* whether that write succeeded
    everFailed,         \* a steady-state write has failed
    dropped,            \* datagrams discarded by the decoder
    failed_step,        \* the setup step that failed, "none" while none has
    setup_done,         \* the setup steps that have succeeded
    scan_had_target,    \* the scan reported a peripheral with the target address
    connected_to,       \* the peripheral connect() was called on, as Option
    handshakes,         \* writes of the initialize frame
    firstFrame,         \* the first frame ever written to the characteristic
    dev,                \* the channel values delivered to the light so far
    healOf,             \* tag of the failed write that the last write made up for
    firstCmdFrame,      \* the first RGB or white frame written
    hsPending,          \* the slot at the moment the handshake succeeded
    firstMsg,           \* the pair the first consume returned
    firstWaited         \* the first consume blocked in wait()

vars ==
    <<alive, target_address, txpc, light, msg, rxpc, buf, light_state,
      this_modification, slot, lock, received, prev_state, nPublish, unread,
      drained, consumed, nNonNone, lastNonNone, wcount, lastFrame, lastWriteOk,
      everFailed, dropped, failed_step, setup_done, scan_had_target,
      connected_to, handshakes, firstFrame, dev, healOf, firstCmdFrame,
      hsPending, firstMsg, firstWaited>>

txVars == <<txpc, light, msg>>
rxVars == <<rxpc, buf, light_state, this_modification, received, prev_state, dropped>>
txHist == <<drained, consumed, nNonNone, lastNonNone, wcount, lastFrame, lastWriteOk, everFailed>>
setupHist == <<failed_step, setup_done, scan_had_target, connected_to>>
writeHist == <<handshakes, firstFrame, dev, healOf, firstCmdFrame>>
consHist == <<hsPending, firstMsg, firstWaited>>

\* serve, up to the two thread::spawn calls: the mailbox holds
\* (LightState::default(), StateModification::None).
InitCommon ==
    /\ alive = TRUE
    /\ target_address \in TargetAddrs
    /\ light = NoneOpt
    /\ msg = <<LightStateDefault, "None">>
    /\ this_modification = "None"
    /\ slot = <<LightStateDefault, "None">>
    /\ lock = "free"
    /\ received = 0
    /\ nPublish = 0
    /\ unread = <<>>
    /\ drained = <<>>
    /\ consumed = FALSE
    /\ nNonNone = 0
    /\ lastNonNone = LightStateDefault
    /\ wcount = 0
    /\ lastFrame = <<>>
    /\ lastWriteOk = TRUE
    /\ everFailed = FALSE
    /\ dropped = 0
    /\ failed_step = "none"
    /\ setup_done = {}
    /\ scan_had_target = FALSE
    /\ connected_to = NoneOpt
    /\ handshakes = 0
    /\ firstFrame = <<>>
    /\ dev = LightStateDefault
    /\ healOf = "None"
    /\ firstCmdFrame = <<>>
    /\ hsPending = <<LightStateDefault, "None">>
    /\ firstMsg = <<LightStateDefault, "None">>
    /\ firstWaited = FALSE

Init ==
    /\ InitCommon
    /\ txpc = "manager"
    /\ rxpc = "recv"
    /\ buf = Broken
    /\ light_state = LightStateDefault
    /\ prev_state = LightStateDefault

\* ------------------------------------------------ transmit thread: setup
\* A setup step either succeeds and moves on, or panics (unwrap / expect);
\* it touches nothing but the position of the transmit thread.
SetupFrame ==
    /\ UNCHANGED <<alive, target_address, light, msg, slot, lock, nPublish, unread>>
    /\ UNCHANGED rxVars
    /\ UNCHANGED txHist
    /\ UNCHANGED writeHist
    /\ UNCHANGED consHist

\* The record of a setup step: done when it succeeded, the failed one if not.
SetupOutcome(step, ok) ==
    /\ failed_step' = IF ok THEN failed_step ELSE step
    /\ setup_done' = IF ok THEN setup_done \cup {step} ELSE setup_done

\* Manager::new().unwrap()
TxManager ==
    \E ok \in BOOLEAN :
        /\ alive
        /\ txpc = "manager"
        /\ txpc' = IF ok THEN "central" ELSE "panicked"
        /\ SetupFrame
        /\ SetupOutcome("manager", ok)
        /\ UNCHANGED <<scan_had_target, connected_to>>

\* get_central: adapters().unwrap(), nth(0).unwrap(), connect().unwrap()
TxGetCentral ==
    \E ok \in BOOLEAN :
        /\ alive
        /\ txpc = "central"
        /\ txpc' = IF ok THEN "start_scan" ELSE "panicked"
        /\ SetupFrame
        /\ SetupOutcome("central", ok)
        /\ UNCHANGED <<scan_had_target, connected_to>>

\* central.start_scan().expect(..), then the 5 s sleep
TxStartScan ==
    \E ok \in BOOLEAN :
        /\ alive
        /\ txpc = "start_scan"
        /\ txpc' = IF ok THEN "find" ELSE "panicked"
        /\ SetupFrame
        /\ SetupOutcome("start_scan", ok)
        /\ UNCHANGED <<scan_had_target, connected_to>>

\* A lookup that takes the first peripheral of the scan, whatever its address.
FindLightFirst(peripherals) ==
    IF Len(peripherals) = 0 THEN NoneOpt ELSE Some(peripherals[1])

\* central.peripherals().into_iter().find(|p| address.eq(&target_address))
FindLight(peripherals) ==
    LET hits == {i \in 1..Len(peripherals) : peripherals[i] = target_address}
    IN  IF hits = {} THEN NoneOpt
        ELSE Some(peripherals[CHOOSE i \in hits : \A j \in hits : i <= j])

\* ... .expect("Could not find devices with the specified address")
TxFindLight ==
    \E peripherals \in ScanResults :
        /\ alive
        /\ txpc = "find"
        /\ light' = FindLight(peripherals)
        /\ txpc' = IF light' = NoneOpt THEN "panicked" ELSE "connect"
        /\ SetupOutcome("find", light' # NoneOpt)
        /\ scan_had_target' = (\E i \in 1..Len(peripherals) : peripherals[i] = target_address)
        /\ UNCHANGED <<alive, target_address, msg, slot, lock, nPublish, unread>>
        /\ UNCHANGED rxVars
        /\ UNCHANGED txHist
        /\ UNCHANGED <<connected_to>>
        /\ UNCHANGED writeHist
        /\ UNCHANGED consHist

\* TxConnect that scans again when the connection fails.
TxConnectRetry ==
    \E ok \in BOOLEAN :
        /\ alive
        /\ txpc = "connect"
        /\ txpc' = IF ok THEN "discover" ELSE "find"
        /\ SetupFrame
        /\ SetupOutcome("connect", ok)
        /\ connected_to' = light
        /\ UNCHANGED scan_had_target

\* light.connect().ok().expect("Could not connect to device")
TxConnect ==
    \E ok \in BOOLEAN :
        /\ alive
        /\ txpc = "connect"
        /\ txpc' = IF ok THEN "discover" ELSE "panicked"
        /\ SetupFrame
        /\ SetupOutcome("connect", ok)
        /\ connected_to' = light
        /\ UNCHANGED scan_had_target

\* light.discover_characteristics().ok().expect(..)
TxDiscover ==
    \E ok \in BOOLEAN :
        /\ alive
        /\ txpc = "discover"
        /\ txpc' = IF ok THEN "find_char" ELSE "panicked"
        /\ SetupFrame
        /\ SetupOutcome("discover", ok)
        /\ UNCHANGED <<scan_had_target, connected_to>>

\* chars.iter().find(|c| c.uuid == send_char_uuid).expect(..)
TxFindChar ==
    \E ok \in BOOLEAN :
        /\ alive
        /\ txpc = "find_char"
        /\ txpc' = IF ok THEN "handshake" ELSE "panicked"
        /\ SetupFrame
        /\ SetupOutcome("find_char", ok)
        /\ UNCHANGED <<scan_had_target, connected_to>>

\* TxHandshake with the result of the write only printed, as the command
\* writes of the loop are.
TxHandshakeUnchecked ==
    \E ok \in BOOLEAN :
        /\ alive
        /\ txpc = "handshake"
        /\ txpc' = "lock"
        /\ lastFrame' = HandshakeFrame
        /\ lastWriteOk' = ok
        /\ SetupOutcome("handshake", ok)
        /\ handshakes' = handshakes + 1
        /\ firstFrame' = IF firstFrame = <<>> THEN HandshakeFrame ELSE firstFrame
        /\ hsPending' = IF ok THEN slot ELSE hsPending
        /\ UNCHANGED <<alive, target_address, light, msg, slot, lock, nPublish, unread>>
        /\ UNCHANGED rxVars
        /\ UNCHANGED <<drained, consumed, nNonNone, lastNonNone, wcount, everFailed>>
        /\ UNCHANGED <<scan_had_target, connected_to>>
        /\ UNCHANGED <<dev, healOf, firstCmdFrame, firstMsg, firstWaited>>

\* light.command(cmd_char, &[0xae, 0x33, 0, 0, 0, 0x56]).expect(..)
TxHandshake ==
    \E ok \in BOOLEAN :
        /\ alive
        /\ txpc = "handshake"
        /\ txpc' = IF ok THEN "lock" ELSE "panicked"
        /\ lastFrame' = HandshakeFrame
        /\ lastWriteOk' = ok
        /\ SetupOutcome("handshake", ok)
        /\ handshakes' = handshakes + 1
        /\ firstFrame' = IF firstFrame = <<>> THEN HandshakeFrame ELSE firstFrame
        /\ hsPending' = IF ok THEN slot ELSE hsPending
        /\ UNCHANGED <<alive, target_address, light, msg, slot, lock, nPublish, unread>>
        /\ UNCHANGED rxVars
        /\ UNCHANGED <<drained, consumed, nNonNone, lastNonNone, wcount, everFailed>>
        /\ UNCHANGED <<scan_had_target, connected_to>>
        /\ UNCHANGED <<dev, healOf, firstCmdFrame, firstMsg, firstWaited>>

\* threads.0.join().unwrap(): the join returns once the transmit thread has
\* panicked, main panics in turn and the process exits.
MainJoin ==
    /\ alive
    /\ txpc = "panicked"
    /\ alive' = FALSE
    /\ UNCHANGED <<target_address, slot, lock, nPublish, unread>>
    /\ UNCHANGED txVars
    /\ UNCHANGED rxVars
    /\ UNCHANGED txHist
    /\ UNCHANGED setupHist
    /\ UNCHANGED writeHist
    /\ UNCHANGED consHist

\* ------------------------------------------- transmit thread: steady state
\* let mut msg = lock.lock().unwrap();
TxLock ==
    /\ alive
    /\ txpc = "lock"
    /\ lock = "free"
    /\ lock' = "tx"
    /\ txpc' = "check"
    /\ UNCHANGED <<alive, target_address, light, msg, slot, nPublish, unread>>
    /\ UNCHANGED rxVars
    /\ UNCHANGED txHist
    /\ UNCHANGED setupHist
    /\ UNCHANGED writeHist
    /\ UNCHANGED consHist

\* if msg.1 == StateModification::None { msg = recv.wait(msg).unwrap(); }
\* wait() releases the mutex and blocks; with another tag the thread goes on
\* to the copy with the mutex held.
TxCheck ==
    /\ alive
    /\ txpc = "check"
    /\ IF slot[2] = "None"
          THEN txpc' = "waiting" /\ lock' = "free"
          ELSE txpc' = "copy" /\ lock' = lock
    /\ UNCHANGED <<alive, target_address, light, msg, slot, nPublish, unread>>
    /\ UNCHANGED rxVars
    /\ UNCHANGED txHist
    /\ firstWaited' = (firstWaited \/ (~consumed /\ slot[2] = "None"))
    /\ UNCHANGED <<hsPending, firstMsg>>
    /\ UNCHANGED setupHist
    /\ UNCHANGED writeHist

\* Condvar::wait may return without a notification (spurious wakeup).
TxSpuriousWake ==
    /\ alive
    /\ txpc = "waiting"
    /\ txpc' = "woken"
    /\ UNCHANGED <<alive, target_address, light, msg, slot, lock, nPublish, unread>>
    /\ UNCHANGED rxVars
    /\ UNCHANGED txHist
    /\ UNCHANGED setupHist
    /\ UNCHANGED writeHist
    /\ UNCHANGED consHist

\* wait() returns with the mutex held again; the tag is not tested again.
TxReacquire ==
    /\ alive
    /\ txpc = "woken"
    /\ lock = "free"
    /\ lock' = "tx"
    /\ txpc' = "copy"
    /\ UNCHANGED <<alive, target_address, light, msg, slot, nPublish, unread>>
    /\ UNCHANGED rxVars
    /\ UNCHANGED txHist
    /\ UNCHANGED setupHist
    /\ UNCHANGED writeHist
    /\ UNCHANGED consHist

\* TxCopy whose guard lives on through the frame write.
TxCopyHoldLock ==
    /\ alive
    /\ txpc = "copy"
    /\ msg' = slot
    /\ slot' = <<slot[1], "None">>
    /\ lock' = lock
    /\ txpc' = "send"
    /\ drained' = unread
    /\ unread' = <<>>
    /\ consumed' = TRUE
    /\ nNonNone' = IF slot[2] = "None" THEN nNonNone ELSE nNonNone + 1
    /\ lastNonNone' = IF slot[2] = "None" THEN lastNonNone ELSE slot[1]
    /\ wcount' = 0
    /\ UNCHANGED <<alive, target_address, light, nPublish>>
    /\ UNCHANGED rxVars
    /\ UNCHANGED <<lastFrame, lastWriteOk, everFailed>>
    /\ firstMsg' = IF consumed THEN firstMsg ELSE slot
    /\ healOf' = "None"
    /\ UNCHANGED <<hsPending, firstWaited>>
    /\ UNCHANGED <<handshakes, firstFrame, dev, firstCmdFrame>>
    /\ UNCHANGED setupHist

\* TxCopy without msg.1 = StateModification::None.
TxCopyNoReset ==
    /\ alive
    /\ txpc = "copy"
    /\ msg' = slot
    /\ slot' = slot
    /\ lock' = "free"
    /\ txpc' = "send"
    /\ drained' = unread
    /\ unread' = <<>>
    /\ consumed' = TRUE
    /\ nNonNone' = IF slot[2] = "None" THEN nNonNone ELSE nNonNone + 1
    /\ lastNonNone' = IF slot[2] = "None" THEN lastNonNone ELSE slot[1]
    /\ wcount' = 0
    /\ UNCHANGED <<alive, target_address, light, nPublish>>
    /\ UNCHANGED rxVars
    /\ UNCHANGED <<lastFrame, lastWriteOk, everFailed>>
    /\ firstMsg' = IF consumed THEN firstMsg ELSE slot
    /\ healOf' = "None"
    /\ UNCHANGED <<hsPending, firstWaited>>
    /\ UNCHANGED <<handshakes, firstFrame, dev, firstCmdFrame>>
    /\ UNCHANGED setupHist

\* let res = (*msg).clone(); msg.1 = StateModification::None; res
\* and the guard is dropped at the end of the block.
TxCopy ==
    /\ alive
    /\ txpc = "copy"
    /\ msg' = slot
    /\ slot' = <<slot[1], "None">>
    /\ lock' = "free"
    /\ txpc' = "send"
    /\ drained' = unread
    /\ unread' = <<>>
    /\ consumed' = TRUE
    /\ nNonNone' = IF slot[2] = "None" THEN nNonNone ELSE nNonNone + 1
    /\ lastNonNone' = IF slot[2] = "None" THEN lastNonNone ELSE slot[1]
    /\ wcount' = 0
    /\ UNCHANGED <<alive, target_address, light, nPublish>>
    /\ UNCHANGED rxVars
    /\ UNCHANGED <<lastFrame, lastWriteOk, everFailed>>
    /\ firstMsg' = IF consumed THEN firstMsg ELSE slot
    /\ healOf' = "None"
    /\ UNCHANGED <<hsPending, firstWaited>>
    /\ UNCHANGED <<handshakes, firstFrame, dev, firstCmdFrame>>
    /\ UNCHANGED setupHist

\* TxSend with the result of light.command unwrapped: a failed write panics.
TxSendExpect ==
    \E ok \in BOOLEAN :
        /\ alive
        /\ txpc = "send"
        /\ txpc' = IF msg[2] # "None" /\ ~ok THEN "panicked" ELSE "lock"
        /\ IF msg[2] = "None"
              THEN UNCHANGED <<wcount, lastFrame, lastWriteOk, everFailed>>
              ELSE /\ wcount' = wcount + 1
                   /\ lastFrame' = IF msg[2] = "RGB" THEN RgbFrame(msg[1]) ELSE WhiteFrame(msg[1])
                   /\ lastWriteOk' = ok
                   /\ everFailed' = (everFailed \/ ~ok)
        /\ UNCHANGED <<alive, target_address, light, msg, slot, lock, nPublish, unread>>
        /\ UNCHANGED rxVars
        /\ UNCHANGED <<drained, consumed, nNonNone, lastNonNone>>
        /\ IF msg[2] = "None"
              THEN UNCHANGED <<firstFrame, dev, healOf, firstCmdFrame>>
              ELSE /\ firstFrame' = IF firstFrame = <<>> THEN lastFrame' ELSE firstFrame
                   /\ firstCmdFrame' = IF firstCmdFrame = <<>> THEN lastFrame' ELSE firstCmdFrame
                   /\ dev' = IF ~ok THEN dev
                             ELSE IF msg[2] = "RGB" THEN [dev EXCEPT !.rgb = msg[1].rgb]
                             ELSE [dev EXCEPT !.white = msg[1].white]
                   /\ healOf' = IF ok /\ ~lastWriteOk THEN FrameTag(lastFrame) ELSE "None"
        /\ UNCHANGED handshakes
        /\ UNCHANGED setupHist
        /\ UNCHANGED consHist

\* match bundled_modification { RGB => send_rgb_state(..), White =>
\* send_white_state(..), None => {} }: the result of light.command is
\* printed when it is an error, and the loop goes round.
TxSend ==
    \E ok \in BOOLEAN :
        /\ alive
        /\ txpc = "send"
        /\ txpc' = "lock"
        /\ IF msg[2] = "None"
              THEN UNCHANGED <<wcount, lastFrame, lastWriteOk, everFailed>>
              ELSE /\ wcount' = wcount + 1
                   /\ lastFrame' = IF msg[2] = "RGB" THEN RgbFrame(msg[1]) ELSE WhiteFrame(msg[1])
                   /\ lastWriteOk' = ok
                   /\ everFailed' = (everFailed \/ ~ok)
        /\ UNCHANGED <<alive, target_address, light, msg, slot, lock, nPublish, unread>>
        /\ UNCHANGED rxVars
        /\ UNCHANGED <<drained, consumed, nNonNone, lastNonNone>>
        /\ IF msg[2] = "None"
              THEN UNCHANGED <<firstFrame, dev, healOf, firstCmdFrame>>
              ELSE /\ firstFrame' = IF firstFrame = <<>> THEN lastFrame' ELSE firstFrame
                   /\ firstCmdFrame' = IF firstCmdFrame = <<>> THEN lastFrame' ELSE firstCmdFrame
                   /\ dev' = IF ~ok THEN dev
                             ELSE IF msg[2] = "RGB" THEN [dev EXCEPT !.rgb = msg[1].rgb]
                             ELSE [dev EXCEPT !.white = msg[1].white]
                   /\ healOf' = IF ok /\ ~lastWriteOk THEN FrameTag(lastFrame) ELSE "None"
        /\ UNCHANGED handshakes
        /\ UNCHANGED setupHist
        /\ UNCHANGED consHist

\* ------------------------------------------------------- ingestion thread
\* socket.recv_from(&mut buf) returns a datagram. (On a timeout the loop
\* continues with no change of state.)
RxRecv ==
    \E d \in Datagrams :
        /\ alive
        /\ rxpc = "recv"
        /\ received < MaxDatagrams
        /\ received' = received + 1
        /\ buf' = d
        /\ rxpc' = "decode"
        /\ UNCHANGED <<alive, target_address, slot, lock, nPublish, unread>>
        /\ UNCHANGED <<light_state, this_modification, prev_state, dropped>>
        /\ UNCHANGED txVars
        /\ UNCHANGED txHist
        /\ UNCHANGED setupHist
        /\ UNCHANGED writeHist
        /\ UNCHANGED consHist

\* rosc::decoder::decode: Err for bytes that are no OSC packet.
osc_decode(bytes) == IF bytes.kind = "Broken" THEN NoneOpt ELSE Some(bytes)

\* RxDecodeFail without the continue: the loop body goes on to publish.
RxDecodeFailNoContinue ==
    /\ alive
    /\ rxpc = "decode"
    /\ osc_decode(buf) = NoneOpt
    /\ rxpc' = "lock"
    /\ dropped' = dropped + 1
    /\ UNCHANGED <<alive, target_address, slot, lock, nPublish, unread>>
    /\ UNCHANGED <<buf, light_state, this_modification, received, prev_state>>
    /\ UNCHANGED txVars
    /\ UNCHANGED txHist
    /\ UNCHANGED setupHist
    /\ UNCHANGED writeHist
    /\ UNCHANGED consHist

\* if let Err(err) = osc_packet { println!(..); continue; }
RxDecodeFail ==
    /\ alive
    /\ rxpc = "decode"
    /\ osc_decode(buf) = NoneOpt
    /\ rxpc' = "recv"
    /\ dropped' = dropped + 1
    /\ UNCHANGED <<alive, target_address, slot, lock, nPublish, unread>>
    /\ UNCHANGED <<buf, light_state, this_modification, received, prev_state>>
    /\ UNCHANGED txVars
    /\ UNCHANGED txHist
    /\ UNCHANGED setupHist
    /\ UNCHANGED writeHist
    /\ UNCHANGED consHist

\* let osc_packet = osc_packet.unwrap();
\* let this_modification = handle_packet(osc_packet, &mut light_state);
\* A panic in handle_message ends the thread; the mutex is not held.
RxDispatch ==
    /\ alive
    /\ rxpc = "decode"
    /\ osc_decode(buf) # NoneOpt
    /\ LET r == handle_packet(osc_decode(buf)[1], light_state)
       IN  /\ light_state' = r.state
           /\ this_modification' = IF r.panic THEN this_modification ELSE r.mod
           /\ rxpc' = IF r.panic THEN "panicked" ELSE "lock"
    /\ prev_state' = light_state
    /\ UNCHANGED <<alive, target_address, slot, lock, nPublish, unread>>
    /\ UNCHANGED <<buf, received, dropped>>
    /\ UNCHANGED txVars
    /\ UNCHANGED txHist
    /\ UNCHANGED setupHist
    /\ UNCHANGED writeHist
    /\ UNCHANGED consHist

\* let mut light_state_send = lock.lock().unwrap();
RxLock ==
    /\ alive
    /\ rxpc = "lock"
    /\ lock = "free"
    /\ lock' = "rx"
    /\ rxpc' = "store"
    /\ UNCHANGED <<alive, target_address, slot, nPublish, unread>>
    /\ UNCHANGED <<buf, light_state, this_modification, received, prev_state, dropped>>
    /\ UNCHANGED txVars
    /\ UNCHANGED txHist
    /\ UNCHANGED setupHist
    /\ UNCHANGED writeHist
    /\ UNCHANGED consHist

\* RxStore that leaves an unread update in the slot instead of overwriting it.
RxStoreKeepPending ==
    /\ alive
    /\ rxpc = "store"
    /\ slot' = IF slot[2] = "None" THEN <<light_state, this_modification>> ELSE slot
    /\ nPublish' = nPublish + 1
    /\ unread' = Append(unread, <<light_state, this_modification>>)
    /\ rxpc' = "notify"
    /\ UNCHANGED <<alive, target_address, lock>>
    /\ UNCHANGED <<buf, light_state, this_modification, received, prev_state, dropped>>
    /\ UNCHANGED txVars
    /\ UNCHANGED txHist
    /\ UNCHANGED setupHist
    /\ UNCHANGED writeHist
    /\ UNCHANGED consHist

\* *light_state_send = (light_state.clone(), this_modification);
RxStore ==
    /\ alive
    /\ rxpc = "store"
    /\ slot' = <<light_state, this_modification>>
    /\ nPublish' = nPublish + 1
    /\ unread' = Append(unread, <<light_state, this_modification>>)
    /\ rxpc' = "notify"
    /\ UNCHANGED <<alive, target_address, lock>>
    /\ UNCHANGED <<buf, light_state, this_modification, received, prev_state, dropped>>
    /\ UNCHANGED txVars
    /\ UNCHANGED txHist
    /\ UNCHANGED setupHist
    /\ UNCHANGED writeHist
    /\ UNCHANGED consHist

\* send.notify_one(); the guard is dropped at the end of the loop body.
\* notify_one wakes the transmit thread if it is blocked in wait().
RxNotify ==
    /\ alive
    /\ rxpc = "notify"
    /\ txpc' = IF txpc = "waiting" THEN "woken" ELSE txpc
    /\ lock' = "free"
    /\ rxpc' = "recv"
    /\ UNCHANGED <<alive, target_address, light, msg, slot, nPublish, unread>>
    /\ UNCHANGED <<buf, light_state, this_modification, received, prev_state, dropped>>
    /\ UNCHANGED txHist
    /\ UNCHANGED setupHist
    /\ UNCHANGED writeHist
    /\ UNCHANGED consHist

\* ----------------------------------------------------------- specification
Next ==
    \/ TxManager
    \/ TxGetCentral
    \/ TxStartScan
    \/ TxFindLight
    \/ TxConnect
    \/ TxDiscover
    \/ TxFindChar
    \/ TxHandshake
    \/ MainJoin
    \/ TxLock
    \/ TxCheck
    \/ TxSpuriousWake
    \/ TxReacquire
    \/ TxCopy
    \/ TxSend
    \/ RxRecv
    \/ RxDecodeFail
    \/ RxDispatch
    \/ RxLock
    \/ RxStore
    \/ RxNotify

Spec == Init /\ [][Next]_vars

\* The dispatch functions alone: one call of handle_packet on a decoded
\* packet, from each start state.
DispatchInit ==
    /\ InitCommon
    /\ txpc = "manager"
    /\ rxpc = "decode"
    /\ buf \in Packets
    /\ light_state \in StartStates
    /\ prev_state = light_state

DispatchNext == RxDispatch

DispatchSpec == DispatchInit /\ [][DispatchNext]_vars

\* ------------------------------------------------------------------ claims
\* The ingestion thread has finished the dispatch of buf.
Dispatched == rxpc \in {"lock", "store", "notify", "panicked"}
\* The transmit thread is between a write and the next copy out of the slot.
BetweenConsumes == txpc \in {"lock", "check", "waiting", "woken", "copy"}

Last(s) == s[Len(s)]

\* C1: after N publishes the consumer has seen at most N tags other than
\* None, and once the producer is idle and the consumer waits again, the
\* snapshot of the last return of consume with a tag other than None is the
\* snapshot of the last publish.
C1_NoLostFinalUpdate ==
    /\ nNonNone <= nPublish
    /\ (rxpc = "recv" /\ txpc = "waiting" /\ nPublish > 0)
          => (nNonNone > 0 /\ lastNonNone = slot[1])

\* C2: the slot holds the latest unread publish only, and when (A, RGB) was
\* published and then (B, White) with no consume between them and none
\* after, consume returns exactly (B, White).
C2_LastWriteWins ==
    /\ (unread # <<>> => slot = Last(unread))
    /\ (consumed /\ Len(drained) >= 2
          /\ drained[Len(drained) - 1][2] = "RGB" /\ Last(drained)[2] = "White")
          => (msg = Last(drained) /\ msg[2] # "RGB")

\* C2 witness: consume has returned after (A, RGB) and then (B, White), with
\* A different from B, were published behind its back.
C2_Witness ==
    /\ txpc = "send"
    /\ Len(drained) >= 2
    /\ drained[Len(drained) - 1][2] = "RGB"
    /\ Last(drained)[2] = "White"
    /\ drained[Len(drained) - 1][1] # Last(drained)[1]
    /\ msg = Last(drained)

\* C3: every return of consume carries the tag RGB or White, never None.
C3_ConsumeNeverNone == txpc = "send" => msg[2] \in {"RGB", "White"}

\* C4: each return of consume is followed by exactly one command write
\* before the next consume, of the frame of the returned tag built from the
\* returned snapshot.
C4_OneWritePerConsume ==
    (consumed /\ BetweenConsumes) =>
        /\ wcount = 1
        /\ msg[2] = "RGB" => lastFrame = RgbFrame(msg[1])
        /\ msg[2] = "White" => lastFrame = WhiteFrame(msg[1])

\* The channel an address sets, and the tag of the address.
Channel(state, addr) ==
    CASE addr = "/red" -> state.rgb.red
      [] addr = "/green" -> state.rgb.green
      [] addr = "/blue" -> state.rgb.blue
      [] addr = "/warm" -> state.white.warm
      [] addr = "/cool" -> state.white.cool
TagOf(addr) == IF addr \in {"/red", "/green", "/blue"} THEN "RGB" ELSE "White"
ScaleOf(addr) == IF addr \in {"/red", "/green", "/blue"} THEN 255 ELSE 99
OthersUnchanged(addr) ==
    \A a \in SupportedAddrs \ {addr} : Channel(light_state, a) = Channel(prev_state, a)

\* What the members of a bundle leave behind when each is dispatched in
\* order against the state the one before it left.
RECURSIVE AfterMembers(_, _, _)
AfterMembers(content, n, state) ==
    IF n = 0 THEN state
    ELSE handle_packet(content[n], AfterMembers(content, n - 1, state)).state

\* C5: a bundle dispatches every member in order against the same state and
\* returns the tag of its last member; an empty bundle returns None and
\* changes nothing.
C5_BundleLastTag ==
    (rxpc # "decode" /\ buf.kind = "Bundle") =>
        LET n == Len(buf.content)
        IN  /\ rxpc = "lock"
            /\ light_state = AfterMembers(buf.content, n, prev_state)
            /\ this_modification =
                  IF n = 0 THEN "None"
                  ELSE handle_packet(buf.content[n],
                                     AfterMembers(buf.content, n - 1, prev_state)).mod

\* C6: a message to an address other than the five supported ones, whatever
\* its arguments, leaves the LightState unchanged and returns None.
C6_UnsupportedAddress ==
    (rxpc # "decode" /\ buf.kind = "Message" /\ buf.addr \notin SupportedAddrs) =>
        /\ rxpc = "lock"
        /\ light_state = prev_state
        /\ this_modification = "None"

\* C6 witness: "/RED" with no argument was dispatched against a LightState
\* that is not the default one.
C6_Witness ==
    /\ rxpc = "lock"
    /\ buf = Message("/RED", <<>>)
    /\ prev_state # LightStateDefault

Clamp(x, lo, hi) == IF x < lo THEN lo ELSE IF x > hi THEN hi ELSE x
\* f * scale as an integer, truncated and rounded to nearest.
Truncated(k, scale) == (k * scale) \div FloatDen
Nearest(k, scale) == (2 * k * scale + FloatDen) \div (2 * FloatDen)

\* C7: a float argument f sets the target channel alone, to f * scale as an
\* integer clamped to the range of the channel (0..255 or 0..99).
C7_ScaledAndClamped ==
    (rxpc # "decode" /\ buf.kind = "Message" /\ buf.addr \in SupportedAddrs
        /\ Len(buf.args) > 0 /\ buf.args[1].type = "Float") =>
        LET k == buf.args[1].v
            max == ScaleOf(buf.addr)
        IN  /\ rxpc = "lock"
            /\ Channel(light_state, buf.addr) \in
                  {Clamp(Truncated(k, max), 0, max), Clamp(Nearest(k, max), 0, max)}
            /\ OthersUnchanged(buf.addr)
            /\ this_modification = TagOf(buf.addr)

\* C8: a supported address whose first argument is absent or no float sets
\* the channel to 0 and returns the tag of the address, and the ingestion
\* thread goes on to publish.
C8_MissingArgReadsZero ==
    (Dispatched /\ buf.kind = "Message" /\ buf.addr \in SupportedAddrs
        /\ (Len(buf.args) = 0 \/ buf.args[1].type # "Float")) =>
        /\ rxpc # "panicked"
        /\ Channel(light_state, buf.addr) = 0
        /\ this_modification = TagOf(buf.addr)

\* C9: a datagram that fails to decode changes neither the LightState nor
\* the slot, publishes nothing, wakes nobody, and the loop goes back to
\* recv_from.
C9_DecodeFailureDiscarded ==
    [][(rxpc = "decode" /\ buf.kind = "Broken" /\ rxpc' # rxpc) =>
          /\ rxpc' = "recv"
          /\ light_state' = light_state
          /\ slot' = slot
          /\ nPublish' = nPublish
          /\ unread' = unread
          /\ txpc' = txpc
          /\ lock' = lock]_vars

\* C9 witness: a datagram was discarded and a later one was read.
C9_Witness == dropped > 0 /\ buf.kind # "Broken" /\ rxpc = "decode"

\* C10: a failing write of an RGB or white frame leaves the slot alone and
\* takes the transmit thread back to consume; the thread and the process go
\* on after it.
C10_WriteFailureTransient ==
    /\ [](everFailed => (alive /\ txpc \in {"lock", "check", "waiting", "woken", "copy", "send"}))
    /\ [][(txpc = "send" /\ msg[2] # "None" /\ txpc' # txpc /\ ~lastWriteOk') =>
             /\ txpc' = "lock"
             /\ everFailed'
             /\ slot' = slot
             /\ lock' = lock
             /\ alive']_vars

\* C10 witness: after a failed write a later update was consumed and its
\* frame written successfully.
C10_Witness == everFailed /\ lastWriteOk /\ wcount = 1 /\ BetweenConsumes

\* ----------------------------------------------------- claims C11 to C20
\* The bridge is in steady state: the handshake has succeeded.
Running == "handshake" \in setup_done

\* C11: when a command write has failed, the next consume followed by a
\* successful write leaves the light with the current values of the
\* channels the failed frame carried, whichever tag that consume returned.
C11_SelfHealing ==
    /\ healOf = "RGB" => dev.rgb = msg[1].rgb
    /\ healOf = "White" => dev.white = msg[1].white

\* The steps of the two threads that the scheduler runs when they can be
\* taken. A spurious wakeup and the arrival of a datagram are not among them.
TxStep ==
    \/ TxManager \/ TxGetCentral \/ TxStartScan \/ TxFindLight \/ TxConnect
    \/ TxDiscover \/ TxFindChar \/ TxHandshake
    \/ TxLock \/ TxCheck \/ TxReacquire \/ TxCopy \/ TxSend
RxStep == RxDecodeFail \/ RxDispatch \/ RxLock \/ RxStore \/ RxNotify

\* The bridge under a fair scheduler: a thread that can take a step takes
\* it, and a join that can return does.
FairSpec == Spec /\ WF_vars(TxStep) /\ WF_vars(RxStep) /\ WF_vars(MainJoin)

\* C12: a failed setup step ends the transmit thread for good (no retry, no
\* way back), no RGB or white frame is written and no consume made, the
\* join of main can return and end the process, the process ends for no
\* other reason, and after the exit neither thread takes a step.
C12_SetupFailureFatal ==
    /\ [](failed_step # "none" =>
            /\ txpc = "panicked"
            /\ ~consumed
            /\ firstCmdFrame = <<>>
            /\ dev = LightStateDefault
            /\ lastFrame \in {<<>>, HandshakeFrame})
    /\ [][txpc = "panicked" =>
            (txpc' = "panicked" /\ failed_step' = failed_step /\ setup_done' = setup_done)]_vars
    /\ [][alive /\ (~alive' => txpc = "panicked")]_vars
    /\ [](failed_step # "none" /\ alive => ENABLED MainJoin)

\* C12 under fair scheduling: a failed setup step leads to the exit of the
\* process.
C12_ProcessExits == failed_step # "none" ~> ~alive

\* C12 witness: the handshake write failed while the ingestion thread had
\* already published, and the process has exited.
C12_Witness == ~alive /\ failed_step = "handshake" /\ nPublish > 0

\* The transmit thread is in its steady-state loop.
InLoop == txpc \in {"lock", "check", "waiting", "woken", "copy", "send"}

\* C13: the initialize frame is written at most once, only after connect
\* and the discovery of the command characteristic have succeeded, and it
\* is the first write; the loop is entered, a consume made and an RGB or
\* white frame written only after that write has succeeded.
C13_HandshakeFirst ==
    /\ handshakes <= 1
    /\ handshakes = 1 => {"find", "connect", "discover", "find_char"} \subseteq setup_done
    /\ firstFrame \in {<<>>, HandshakeFrame}
    /\ (InLoop \/ consumed \/ firstCmdFrame # <<>> \/ lock = "tx") =>
          (handshakes = 1 /\ "handshake" \in setup_done)

\* C13 witness: an RGB or white frame is about to be written, after the one
\* handshake write.
C13_Witness ==
    /\ txpc = "send"
    /\ msg[2] # "None"
    /\ handshakes = 1
    /\ firstFrame = HandshakeFrame

\* The peripheral lookup has run.
Looked == failed_step = "find" \/ "find" \in setup_done

\* C14: the lookup is by exact address. When the scan holds no peripheral
\* with the target address the lookup has failed, the thread has panicked
\* and nothing was connected to, discovered or written; a peripheral the
\* lookup returns, and the one connected to, has the target address.
C14_ExactAddressMatch ==
    /\ (Looked /\ ~scan_had_target) =>
          /\ failed_step = "find"
          /\ txpc = "panicked"
          /\ light = NoneOpt
          /\ connected_to = NoneOpt
          /\ setup_done \cap {"find", "connect", "discover", "find_char", "handshake"} = {}
          /\ handshakes = 0
          /\ lastFrame = <<>>
    /\ (Looked /\ scan_had_target) => (light # NoneOpt /\ failed_step # "find")
    /\ light # NoneOpt => light[1] = target_address
    /\ connected_to # NoneOpt => (scan_had_target /\ connected_to[1] = target_address)

\* C14 witness: the scan held no peripheral with the target address, and
\* the process has ended on the failed lookup.
C14_Witness == Looked /\ ~scan_had_target /\ ~alive

\* C14 witness of the other case: the bridge is connected to the target.
C14_WitnessConnected == connected_to = Some(target_address) /\ InLoop

\* C15: the mutex is not held across I/O. The transmit thread holds it
\* only from the lock or the return of wait() to the end of the copy, never
\* during a setup step or a frame write; the ingestion thread holds it only
\* from its lock to the notify, never while it receives, decodes or
\* dispatches; so while a frame write is in progress an ingestion thread
\* that wants the mutex can take it.
C15_NoLockAcrossIO ==
    /\ lock \in {"free", "tx", "rx"}
    /\ lock = "tx" <=> txpc \in {"check", "copy"}
    /\ lock = "rx" <=> rxpc \in {"store", "notify"}
    /\ txpc = "send" => lock # "tx"
    /\ rxpc \in {"recv", "decode"} => lock # "rx"
    /\ (txpc = "send" /\ rxpc = "lock") => lock = "free"

\* C15 witness: an RGB or white frame write is in progress while the
\* ingestion thread holds the mutex and has stored a publish.
C15_Witness ==
    /\ txpc = "send"
    /\ msg[2] # "None"
    /\ rxpc = "notify"
    /\ lock = "rx"

\* The step that ends a consume: the copy out of the slot.
ConsumeStep == txpc = "copy" /\ txpc' = "send"

\* C16: the consume returns a copy of the stored pair, made with the mutex
\* held; it changes the slot only by resetting the stored tag to None, the
\* stored snapshot stays; no other step of the transmit thread changes the
\* slot; and a consume with no publish since the consume before it returns
\* the tag None.
C16_ConsumeFrameEffect ==
    /\ [][ConsumeStep =>
            /\ lock = "tx"
            /\ msg' = slot
            /\ slot'[1] = slot[1]
            /\ slot'[2] = "None"]_vars
    /\ [][slot' # slot => (ConsumeStep \/ (rxpc = "store" /\ rxpc' = "notify"))]_vars
    /\ [][(ConsumeStep /\ consumed /\ unread = <<>>) => msg'[2] = "None"]_vars

\* C16 witness: a consume has returned an RGB or white tag, and the consume
\* after it, with no publish in between, has returned.
C16_Witness ==
    /\ txpc = "send"
    /\ nNonNone > 0
    /\ drained = <<>>
    /\ msg[2] = "None"
    /\ msg[1] = lastNonNone
    /\ slot = msg

\* A consume has returned an RGB or white tag and its frame write is next.
ConsumedUpdate == txpc = "send" /\ msg[2] # "None"

\* C17: while Running, under fair scheduling of both threads, a slot that
\* holds an RGB or white tag leads to a consume that returns an RGB or
\* white tag, whose frame is then written.
C17_PendingIsConsumed ==
    (Running /\ slot[2] # "None") ~> ConsumedUpdate

\* C17, the part the code keeps: a pending tag leads to such a consume or
\* to a slot whose tag a publish has set to None; the transmit thread is
\* not left waiting with a pending tag and nobody about to notify it.
C17_NoLostWakeup ==
    /\ [](txpc = "waiting" /\ slot[2] # "None" => rxpc = "notify")
    /\ (Running /\ slot[2] # "None") ~>
          (ConsumedUpdate \/ (slot[2] = "None" /\ rxpc = "notify"))

\* Every datagram received so far has been dealt with, nothing is pending
\* in the slot and the transmit thread waits.
Quiescent ==
    /\ Running
    /\ rxpc = "recv"
    /\ txpc = "waiting"
    /\ slot[2] = "None"

\* C18: while Running, when no write has failed, every datagram received
\* has been dealt with and the transmit thread waits again, the channels
\* last written to the light (0 before any frame) are the five channels of
\* the ingestion thread's LightState.
C18_Convergence ==
    (Quiescent /\ ~everFailed) => dev = light_state

\* C19: a stored RGB or white tag is set back to None by the consume that
\* returns it only; no publish replaces it with None.
C19_PendingClearedByConsumerOnly ==
    [][(slot[2] # "None" /\ slot'[2] = "None") => (ConsumeStep /\ msg' = slot)]_vars

\* The frame the transmit loop writes for a consumed pair with an RGB or
\* white tag.
FrameOf(m) == IF m[2] = "RGB" THEN RgbFrame(m[1]) ELSE WhiteFrame(m[1])

\* C20: when the slot held an RGB or white tag at the moment the handshake
\* succeeded, the first consume does not wait, it returns an RGB or white
\* tag, and the frame of the pair it returns is the first command frame
\* written after the handshake.
C20_SetupUpdatesRetained ==
    hsPending[2] # "None" =>
        /\ ~firstWaited
        /\ consumed => firstMsg[2] # "None"
        /\ firstCmdFrame # <<>> => firstCmdFrame = FrameOf(firstMsg)
====
